---- MODULE Spec2Model ----
(***************************************************************************)
(* Frame pacing of TreeBillboardsApp (Week7-2-TreeBillboardsApp.cpp):      *)
(* the CPU runs Update then Draw on one thread, the GPU consumes the       *)
(* command queue asynchronously, and a ring of gNumFrameResources frame    *)
(* resources is handed back and forth through fence values.                *)
(*                                                                         *)
(* Fixed-point conventions: world/texture matrices are kept in half units  *)
(* (the value 2 stands for 1.0f), material transforms and scroll offsets   *)
(* in thousandths (1000 stands for 1.0f), time in ticks of 0.05 s.         *)
(***************************************************************************)
EXTENDS Integers, Sequences, FiniteSets, TLC

\* ------------------------------------------------------------------ bounds
MaxFrames == 5
MaxInitFence == 1
MaxWalls == 1
MaxMazeParts == 1
LongDt == 200
MaxWalk == 5
MaxIgnoredFailures == 1
MaxTotalTime == LongDt + MaxFrames
HugeDt == 400
MaxScrollTime == 1300
MaxWaveVertices == 2
MaxMouse == 200
MaxPitch == 450

\* ------------------------------------------------------- program constants
gNumFrameResources == 3

Opaque == 0
Transparent == 1
AlphaTested == 2
AlphaTestedTreeSprites == 3
RenderLayerCount == 4

\* one = 1.0f in the two fixed-point scales
HalfOne == 2
MilliOne == 1000
DtSet == {1, LongDt}

MaterialNames == {"grass", "water", "brick", "marble", "wood", "crystal", "treeSprites"}

\* --------------------------------------------------------------- matrices
Identity4x4 == << <<HalfOne, 0, 0, 0>>, <<0, HalfOne, 0, 0>>,
                  <<0, 0, HalfOne, 0>>, <<0, 0, 0, HalfOne>> >>

\* XMMatrixScaling(sx,sy,sz) * XMMatrixTranslation(px,py,pz), row-vector
\* convention: the translation is the fourth row.  Arguments in half units.
ScalingTranslation(sx, sy, sz, px, py, pz) ==
    << <<sx, 0, 0, 0>>, <<0, sy, 0, 0>>, <<0, 0, sz, 0>>, <<px, py, pz, HalfOne>> >>

XMMatrixTranspose(m) == [i \in 1..4 |-> [j \in 1..4 |-> m[j][i]]]

\* Material::MatTransform: identity with (3,0) = tu and (3,1) = tv (thousandths)
MatTransformOf(tu, tv) ==
    << <<MilliOne, 0, 0, 0>>, <<0, MilliOne, 0, 0>>,
       <<0, 0, MilliOne, 0>>, <<tu, tv, 0, MilliOne>> >>

\* ------------------------------------------------------ scene construction
\* UINT ObjCBIndex = -1: the index of a RenderItem that was never given one
ObjCBIndexUnset == -1

RenderItemInit_TwoFrames(idx, mat, layer, world, tex) ==
    [NumFramesDirty |-> gNumFrameResources - 1, ObjCBIndex |-> idx, Mat |-> mat,
     Layer |-> layer, World |-> world, TexTransform |-> tex]
\* struct RenderItem defaults and the fields BuildRenderItems assigns
RenderItemInit(idx, mat, layer, world, tex) ==
    [NumFramesDirty |-> gNumFrameResources, ObjCBIndex |-> idx, Mat |-> mat,
     Layer |-> layer, World |-> world, TexTransform |-> tex]

\* the i-th iteration (i = 0,1,2) of the castle wall loop
WallRitem(i, idx) ==
    RenderItemInit(idx, "brick", AlphaTested,
        ScalingTranslation(2 * (12 + 168 * (i % 2)), 80, 2 * (12 + 228 * (1 - (i % 2))),
                           2 * (-90 + i * 90), 60, 2 * (120 - 120 * (1 - (i % 2)))),
        ScalingTranslation(20, 4, 2, 0, 0, 0))

\* BuildMazePart(sX, sZ, pX, pZ, index), arguments in half units;
\* tempRitem->ObjCBIndex = index++ stores the value passed in
BuildMazePart_PreIncrement(sX, sZ, pX, pZ, index) ==
    RenderItemInit(index + 1, "grass", AlphaTested,
        ScalingTranslation(sX, 60, sZ, pX, 50, pZ),
        ScalingTranslation(12, 8, 8, 0, 0, 0))
BuildMazePart(sX, sZ, pX, pZ, index) ==
    RenderItemInit(index, "grass", AlphaTested,
        ScalingTranslation(sX, 60, sZ, pX, 50, pZ),
        ScalingTranslation(12, 8, 8, 0, 0, 0))

NumWalls == IF MaxWalls < 3 THEN MaxWalls ELSE 3

\* the first maze walls of BuildRenderItems, in call order (half units)
MazeArgs == << <<108, 3, 80, -180>>, <<108, 3, -80, -180>>, <<108, 3, 80, 180>>,
               <<108, 3, -80, 180>>, <<3, 360, 134, 0>> >>
NumMazeParts == IF MaxMazeParts < Len(MazeArgs) THEN MaxMazeParts ELSE Len(MazeArgs)

\* mAllRitems after BuildRenderItems, in push_back order; funcCBIndex counts
\* up by one per item, so the item at position p has ObjCBIndex p - 1.  The
\* six single items, then the wall loop and the maze walls up to the bounds;
\* the remaining loops push alpha-tested items of the same shape.  boxRitem
\* is created but neither given an index nor pushed, so it is not in the list.
BuildRenderItems ==
    LET named == <<
            RenderItemInit(0, "water", Transparent,
                ScalingTranslation(12, 2, 12, 0, 0, 0), ScalingTranslation(60, 60, 2, 0, 0, 0)),
            RenderItemInit(1, "grass", Opaque,
                Identity4x4, ScalingTranslation(10, 10, 2, 0, 0, 0)),
            RenderItemInit(2, "treeSprites", AlphaTestedTreeSprites,
                Identity4x4, Identity4x4),
            RenderItemInit(3, "brick", AlphaTested,
                ScalingTranslation(440, 16, 560, 0, 12, 0), ScalingTranslation(22, 22, 22, 0, 0, 0)),
            RenderItemInit(4, "wood", AlphaTested,
                ScalingTranslation(60, 12, 90, 0, 18, -275), Identity4x4),
            RenderItemInit(5, "crystal", AlphaTested,
                ScalingTranslation(40, 24, 40, 0, 32, 200), Identity4x4) >>
        walls == [i \in 1..NumWalls |-> WallRitem(i - 1, 6 + i - 1)]
        maze  == [k \in 1..NumMazeParts |->
                    BuildMazePart(MazeArgs[k][1], MazeArgs[k][2], MazeArgs[k][3],
                                  MazeArgs[k][4], 6 + NumWalls + k - 1)]
    IN named \o walls \o maze

\* mRitemLayer[layer]: the items pushed to the layer, in push order, as
\* positions in mAllRitems (non-owning pointers)
RECURSIVE LayerList(_, _, _)
\* with the push of boxRitem to the alpha-tested layer left in
LayerList_WithBox(items, layer, p) ==
    IF p > Len(items) THEN (IF layer = AlphaTested THEN <<p>> ELSE <<>>)
    ELSE (IF items[p].Layer = layer THEN <<p>> ELSE <<>>) \o LayerList(items, layer, p + 1)
LayerList(items, layer, p) ==
    IF p > Len(items) THEN <<>>
    ELSE (IF items[p].Layer = layer THEN <<p>> ELSE <<>>) \o LayerList(items, layer, p + 1)

mRitemLayer == [l \in 0..(RenderLayerCount - 1) |-> LayerList(BuildRenderItems, l, 1)]

\* BuildMaterials: MatCBIndex, roughness (thousandths); NumFramesDirty is the
\* Material default, MatTransform the identity
MatCBIndexOf == [n \in MaterialNames |->
    CASE n = "grass" -> 0 [] n = "water" -> 1 [] n = "brick" -> 2 [] n = "marble" -> 3
      [] n = "wood" -> 4 [] n = "crystal" -> 5 [] OTHER -> 6]
DiffuseSrvHeapIndexOf == [n \in MaterialNames |->
    CASE n = "grass" -> 0 [] n = "water" -> 1 [] n = "brick" -> 2 [] n = "marble" -> 3
      [] n = "wood" -> 4 [] n = "crystal" -> 5 [] OTHER -> 6]
RoughnessOf == [n \in MaterialNames |->
    CASE n = "grass" -> 125 [] n = "water" -> 0 [] n = "treeSprites" -> 125 [] OTHER -> 250]
MaterialDefaultDirty == gNumFrameResources
BuildMaterials ==
    [n \in MaterialNames |->
        [MatCBIndex |-> MatCBIndexOf[n], DiffuseSrvHeapIndex |-> DiffuseSrvHeapIndexOf[n],
         Roughness |-> RoughnessOf[n],
         NumFramesDirty |-> MaterialDefaultDirty, tu |-> 0, tv |-> 0]]

\* BuildDescriptorHeaps: a heap of NumDescriptors entries; the views created
\* in it, in heap order (entry i of the sequence is heap index i - 1)
NumDescriptors == 8
BuildDescriptorHeaps_NoTreeArray ==
    <<"grassTex", "waterTex", "brickTex", "marbleTex", "woodTex", "crystalTex">>
BuildDescriptorHeaps ==
    <<"grassTex", "waterTex", "brickTex", "marbleTex", "woodTex", "crystalTex",
      "treeArrayTex">>
mSrvDescriptorHeap == BuildDescriptorHeaps

\* mWaves = std::make_unique<Waves>(128, 128, ...): rows and columns
RowCount == 128
ColumnCount == 128
\* mWaves->VertexCount(), cut down to the first MaxWaveVertices vertices
VertexCount ==
    IF RowCount * ColumnCount < MaxWaveVertices THEN RowCount * ColumnCount
    ELSE MaxWaveVertices

\* BuildFrameResources: N slots, buffers sized to the scene, Fence = 0
Unset == [unset |-> TRUE]
BuildFrameResources ==
    [s \in 0..(gNumFrameResources - 1) |->
        [Fence |-> 0,
         ObjectCB |-> [i \in 0..(Len(BuildRenderItems) - 1) |-> Unset],
         MaterialCB |-> [i \in 0..(Cardinality(MaterialNames) - 1) |-> Unset],
         PassCB |-> Unset,
         WavesVB |-> [i \in 0..(VertexCount - 1) |-> Unset]]]

\* ------------------------------------------------------------------- state
VARIABLES
    pc,                       \* position of the CPU thread in Update / Draw
    gt,                       \* GameTimer: TotalTime and DeltaTime (ticks)
    mCamera,                  \* camera position along its look axis (half units)
    mCurrFrameResourceIndex,
    mCurrFrameResource,       \* "nullptr" or the index of the slot pointed to
    mFrameResources,
    mAllRitems,
    mMaterials,
    mMainPassCB,
    t_base,                   \* static local of UpdateWaves (ticks)
    mWaves,                   \* wave field: simulation steps and disturbances so far
    VertexBufferGPU,          \* mWavesRitem->Geo->VertexBufferGPU: NullBuffer or a slot
    mCommandList,             \* draw calls recorded by the current Draw
    mCommandQueue,            \* work submitted to the GPU and not yet finished
    mCurrentFence,            \* CPU fence counter
    mFence,                   \* completed value of the fence object
    eventHandle,              \* local of Update's wait block
    numIgnored,               \* history: failures whose result the code did not test
    numUpdates,               \* history: Updates that finished their writes
    slotHistory,              \* history: slot selected by each Update
    submitHistory,            \* history: slot of each submitted frame
    stampHistory,             \* history: fence value stamped by each Draw
    failedCalls,              \* history: API calls that returned a failure
    maxDt,                    \* history: longest frame time so far (ticks)
    disturbTimes,             \* history: timer total time of each wave disturbance
    disturbCell,              \* history: <<i, j>> of the Disturb call of the Update
                              \* that has just finished, <<>> before and after
    updateLog,                \* history: the sub-steps of the latest Update, in order
    bNoClip,
    mPitch,                   \* camera pitch accumulated by Pitch calls (quarter degrees)
    mYaw,                     \* camera yaw accumulated by RotateY calls (quarter degrees)
    mLastMousePos,            \* [x, y] in pixels
    lastInput,                \* history: kind and button state of the latest input event
    cbWrites                  \* history: constant-buffer entries copied by the latest Update

vars == <<pc, gt, mCamera, mCurrFrameResourceIndex, mCurrFrameResource, mFrameResources,
          mAllRitems, mMaterials, mMainPassCB, t_base, mWaves, VertexBufferGPU, mCommandList, mCommandQueue,
          mCurrentFence, mFence, eventHandle, numIgnored, numUpdates, slotHistory,
          submitHistory, stampHistory, failedCalls, maxDt,
          disturbTimes, disturbCell, updateLog, bNoClip, mPitch,
          mYaw, mLastMousePos, lastInput, cbWrites>>

Slots == 0..(gNumFrameResources - 1)

\* mCamera.SetPosition(0.0f, 15.0f, -80.0f): the z coordinate in half units
InitialCameraZ == -160

\* geo->VertexBufferGPU = nullptr in BuildWavesGeometry ("set dynamically"):
\* the null reference, distinct from every slot number
NullBuffer == -1

\* State after Initialize(): scene built, frame resources created, and the
\* initialization commands flushed, so the GPU has completed every fence
\* value signaled so far.
Init ==
    /\ pc = "Update"
    /\ gt = [TotalTime |-> 0, DeltaTime |-> 0]
    /\ mCamera = InitialCameraZ
    /\ mCurrFrameResourceIndex = 0
    /\ mCurrFrameResource = "nullptr"
    /\ mFrameResources = BuildFrameResources
    /\ mAllRitems = BuildRenderItems
    /\ mMaterials = BuildMaterials
    /\ mMainPassCB = Unset
    /\ t_base = 0
    /\ mWaves = [steps |-> 0, disturbs |-> 0]
    /\ VertexBufferGPU = NullBuffer
    /\ mCommandList = <<>>
    /\ mCommandQueue = <<>>
    /\ mCurrentFence = MaxInitFence
    /\ mFence = mCurrentFence
    /\ eventHandle = "none"
    /\ numIgnored = 0
    /\ numUpdates = 0
    /\ slotHistory = <<>>
    /\ submitHistory = <<>>
    /\ stampHistory = <<>>
    /\ failedCalls = {}
    /\ maxDt = 0
    /\ disturbTimes = <<>>
    /\ disturbCell = <<>>
    /\ updateLog = <<>>
    /\ bNoClip = FALSE
    /\ mPitch = 0
    /\ mYaw = 0
    /\ mLastMousePos = [x |-> 0, y |-> 0]
    /\ lastInput = [kind |-> "none", button |-> FALSE]
    /\ cbWrites = {}

\* ------------------------------------------------------------ Update stage
KeySets == {{}, {"W"}}
camSpeed == 5
Abs(x) == IF x < 0 THEN -x ELSE x

\* OnKeyboardInput: Walk(camSpeed*dt) on W, Walk(-camSpeed*dt) on S
OnKeyboardInput(cam, keys, dt) ==
    cam + (IF "W" \in keys THEN camSpeed * dt ELSE 0)
        - (IF "S" \in keys THEN camSpeed * dt ELSE 0)

\* OnKeyboardInput: '1' sets bNoClip, then '2' clears it
NoClipAfter(noClip, keys) ==
    IF "2" \in keys THEN FALSE ELSE IF "1" \in keys THEN TRUE ELSE noClip

NextFrameResourceIndex_Skip(i) == (i + 2) % gNumFrameResources
NextFrameResourceIndex(i) == (i + 1) % gNumFrameResources

\* the condition of Update's if statement
MustWait_NoZeroTest(fence, completed) == completed < fence + 1
MustWait_OffByOne(fence, completed) == fence # 0 /\ completed + 1 < fence
MustWait_Never(fence, completed) == fence # 0 /\ completed < 0
MustWait_Reversed(fence, completed) == fence # 0 /\ completed >= fence
MustWait_TwoBehind(fence, completed) == fence # 0 /\ completed + 2 < fence
MustWait(fence, completed) == fence # 0 /\ completed < fence

\* Update up to and including the fence test (the timer tick of the run
\* loop, OnKeyboardInput, UpdateCamera, ring advance).
UpdateAdvance ==
    /\ pc = "Update"
    /\ Len(slotHistory) < MaxFrames
    /\ \E dt \in DtSet, keys \in KeySets :
        /\ gt.TotalTime + dt <= MaxTotalTime
        /\ Abs(OnKeyboardInput(mCamera, keys, dt) - InitialCameraZ) <= MaxWalk
        /\ gt' = [TotalTime |-> gt.TotalTime + dt, DeltaTime |-> dt]
        /\ maxDt' = IF dt > maxDt THEN dt ELSE maxDt
        /\ mCamera' = OnKeyboardInput(mCamera, keys, dt)
        /\ bNoClip' = NoClipAfter(bNoClip, keys)
    /\ updateLog' = <<"OnKeyboardInput", "UpdateCamera">>
    /\ mCurrFrameResourceIndex' = NextFrameResourceIndex(mCurrFrameResourceIndex)
    /\ mCurrFrameResource' = mCurrFrameResourceIndex'
    /\ slotHistory' = Append(slotHistory, mCurrFrameResourceIndex')
    /\ pc' = IF MustWait(mFrameResources[mCurrFrameResourceIndex'].Fence, mFence)
             THEN "CreateEvent" ELSE "UpdateWrite"
    /\ UNCHANGED <<mFrameResources, mAllRitems, mMaterials, mMainPassCB, t_base, mWaves,
                   VertexBufferGPU, mCommandList, mCommandQueue, mCurrentFence, mFence,
                   eventHandle, numIgnored, numUpdates, submitHistory, stampHistory,
                   failedCalls, disturbTimes, disturbCell, mPitch, mYaw, mLastMousePos,
                   lastInput, cbWrites>>

\* ThrowIfFailed(call): on a failed HRESULT a DxException leaves the frame,
\* otherwise execution goes on with the next statement
ThrowIfFailed_Ignored(ok, next) == next
ThrowIfFailed(ok, next) == IF ok THEN next ELSE "Thrown"

\* CreateEventEx: the returned handle is not tested; on failure it is null.
UpdateCreateEvent ==
    /\ pc = "CreateEvent"
    /\ \E h \in {"valid", "null"} :
        /\ h = "null" => numIgnored < MaxIgnoredFailures
        /\ eventHandle' = h
        /\ failedCalls' = IF h = "null" THEN failedCalls \cup {"CreateEventEx"} ELSE failedCalls
        /\ numIgnored' = IF h = "null" THEN numIgnored + 1 ELSE numIgnored
    /\ pc' = "SetEvent"
    /\ UNCHANGED <<gt, mCamera, mCurrFrameResourceIndex, mCurrFrameResource,
                   mFrameResources, mAllRitems, mMaterials, mMainPassCB, t_base, mWaves,
                   VertexBufferGPU, mCommandList, mCommandQueue, mCurrentFence, mFence,
                   numUpdates, slotHistory, submitHistory, stampHistory, maxDt,
                   disturbTimes, disturbCell, updateLog, bNoClip, mPitch, mYaw,
                   mLastMousePos, lastInput, cbWrites>>

\* ThrowIfFailed(mFence->SetEventOnCompletion(Fence, eventHandle)).  With a
\* null handle the call itself does not return successfully before the
\* fence has reached the value.
UpdateSetEvent ==
    /\ pc = "SetEvent"
    /\ \E ok \in BOOLEAN :
        IF ok
        THEN /\ eventHandle = "null" =>
                    mFence >= mFrameResources[mCurrFrameResource].Fence
             /\ pc' = ThrowIfFailed(TRUE, "WaitForSingleObject")
             /\ UNCHANGED failedCalls
        ELSE /\ pc' = ThrowIfFailed(FALSE, "WaitForSingleObject")
             /\ failedCalls' = failedCalls \cup {"SetEventOnCompletion"}
    /\ UNCHANGED <<gt, mCamera, mCurrFrameResourceIndex, mCurrFrameResource,
                   mFrameResources, mAllRitems, mMaterials, mMainPassCB, t_base, mWaves,
                   VertexBufferGPU, mCommandList, mCommandQueue, mCurrentFence, mFence,
                   eventHandle, numIgnored, numUpdates, slotHistory, submitHistory,
                   stampHistory, maxDt, disturbTimes, disturbCell, updateLog, bNoClip,
                   mPitch, mYaw, mLastMousePos, lastInput, cbWrites>>

\* WaitForSingleObject(eventHandle, INFINITE); CloseHandle(eventHandle).
\* A valid event is set once the fence reaches the value; waiting on a null
\* handle fails at once and the result is not tested.
WaitReturns_Timeout(h, completed, fence) == TRUE
WaitReturns(h, completed, fence) == h = "null" \/ completed >= fence

UpdateWaitForSingleObject ==
    /\ pc = "WaitForSingleObject"
    /\ WaitReturns(eventHandle, mFence, mFrameResources[mCurrFrameResource].Fence)
    /\ eventHandle' = "none"
    /\ pc' = "UpdateWrite"
    /\ UNCHANGED <<gt, mCamera, mCurrFrameResourceIndex, mCurrFrameResource,
                   mFrameResources, mAllRitems, mMaterials, mMainPassCB, t_base, mWaves,
                   VertexBufferGPU, mCommandList, mCommandQueue, mCurrentFence, mFence,
                   numIgnored, numUpdates, slotHistory, submitHistory, stampHistory,
                   failedCalls, maxDt, disturbTimes, disturbCell, updateLog, bNoClip,
                   mPitch, mYaw, mLastMousePos, lastInput, cbWrites>>

TuRate == 5
TvRate == 1
\* if(tu >= 1.0f) tu -= 1.0f;
ScrollWrap_Strict(x) == IF x > MilliOne THEN x - MilliOne ELSE x
ScrollWrap(x) == IF x >= MilliOne THEN x - MilliOne ELSE x

AnimateMaterials_KeepsClean(mats, dt) ==
    [mats EXCEPT !["water"] =
        [@ EXCEPT !.tu = ScrollWrap(@ + TuRate * dt),
                  !.tv = ScrollWrap(@ + TvRate * dt)]]
AnimateMaterials(mats, dt) ==
    [mats EXCEPT !["water"] =
        [@ EXCEPT !.tu = ScrollWrap(@ + TuRate * dt),
                  !.tv = ScrollWrap(@ + TvRate * dt),
                  !.NumFramesDirty = gNumFrameResources]]

ObjectConstantsOf(e) ==
    [World |-> XMMatrixTranspose(e.World), TexTransform |-> XMMatrixTranspose(e.TexTransform)]

MaterialConstantsOf(mat) ==
    [Roughness |-> mat.Roughness,
     MatTransform |-> XMMatrixTranspose(MatTransformOf(mat.tu, mat.tv))]

DirtyDecrement_ByTwo(n) == n - 2
DirtyDecrement(n) == n - 1

\* UpdateObjectCBs: the loop over mAllRitems; CopyData for the dirty ones
RECURSIVE ObjectCBAfter(_, _, _)
ObjectCBAfter(items, cb, p) ==
    IF p > Len(items) THEN cb
    ELSE ObjectCBAfter(items,
            IF items[p].NumFramesDirty > 0
            THEN [cb EXCEPT ![items[p].ObjCBIndex] = ObjectConstantsOf(items[p])]
            ELSE cb,
            p + 1)

RitemsAfter(items) ==
    [p \in 1..Len(items) |->
        IF items[p].NumFramesDirty > 0
        THEN [items[p] EXCEPT !.NumFramesDirty = DirtyDecrement(@)]
        ELSE items[p]]

\* the CopyData calls of UpdateObjectCBs and UpdateMaterialCBs on the
\* upload buffers of one slot
ObjectCBWrites(items, slot) ==
    {[cb |-> "object", slot |-> slot, index |-> items[p].ObjCBIndex] :
        p \in {q \in 1..Len(items) : items[q].NumFramesDirty > 0}}

MaterialCBWrites(mats, slot) ==
    {[cb |-> "material", slot |-> slot, index |-> mats[n].MatCBIndex] :
        n \in {m \in DOMAIN mats : mats[m].NumFramesDirty > 0}}

\* UpdateMaterialCBs: the same pattern over mMaterials
MaterialCBAfter(mats, cb) ==
    [i \in DOMAIN cb |->
        LET dirty == {n \in DOMAIN mats : mats[n].MatCBIndex = i /\ mats[n].NumFramesDirty > 0}
        IN IF dirty = {} THEN cb[i] ELSE MaterialConstantsOf(mats[CHOOSE n \in dirty : TRUE])]

MaterialsAfter(mats) ==
    [n \in DOMAIN mats |->
        IF mats[n].NumFramesDirty > 0
        THEN [mats[n] EXCEPT !.NumFramesDirty = DirtyDecrement(@)]
        ELSE mats[n]]

\* UpdateMainPassCB: recomputed from the camera and the timer
PassConstantsOf(cam, timer) ==
    [EyePosW |-> cam, NearZ |-> HalfOne, FarZ |-> 1000 * HalfOne,
     TotalTime |-> timer.TotalTime, DeltaTime |-> timer.DeltaTime]

\* UpdateWaves, first part: every quarter second (5 ticks) one disturbance
DisturbPeriod == 5
DisturbDue_EveryFrame(total, base) == total - base >= 0
DisturbDue(total, base) == total - base >= DisturbPeriod
\* t_base += 0.25f;
AdvanceTimeBase_ToNow(base, total) == total
AdvanceTimeBase(base, total) == base + DisturbPeriod

\* MathHelper::Rand(a, b): some integer of a..b; the model draws the two
\* extreme outcomes
Rand(a, b) == {a, b}

\* the arguments of the two Rand calls of UpdateWaves
DisturbRows_NoMargin == Rand(0, RowCount - 1)
DisturbRows == Rand(4, RowCount - 5)
DisturbColumns == Rand(4, ColumnCount - 5)
WavesAfter(w, total, base) ==
    [steps |-> w.steps + 1,
     disturbs |-> IF DisturbDue(total, base) THEN w.disturbs + 1 ELSE w.disturbs]

\* UpdateWaves, second part: vertex i of the current solution (position,
\* normal and texture coordinate are functions of the solution)
WaveVertex(w, i) == [index |-> i, steps |-> w.steps, disturbs |-> w.disturbs]

\* for(int i = 0; i < mWaves->VertexCount(); ++i) currWavesVB->CopyData(i, v)
CopyWaveVertices(vb, w, count) ==
    [i \in DOMAIN vb |-> IF i < count THEN WaveVertex(w, i) ELSE vb[i]]

\* mWavesRitem->Geo->VertexBufferGPU = currWavesVB->Resource();
RepointWavesVB_Never(old, slot) == old
RepointWavesVB(old, slot) == slot

\* the calls of Update after the fence wait, in statement order
UpdateSteps_UploadBeforeAnimate ==
    <<"UpdateObjectCBs", "UpdateMaterialCBs", "AnimateMaterials", "UpdateMainPassCB",
      "UpdateWaves">>
UpdateSteps ==
    <<"AnimateMaterials", "UpdateObjectCBs", "UpdateMaterialCBs", "UpdateMainPassCB",
      "UpdateWaves">>

\* One call of Update applied to st: the members the calls read and write,
\* with fr the current frame resource; (i, j) is the outcome of the two Rand
\* calls, used only when a disturbance is due.
ApplyUpdateStep(step, st, i, j) ==
    CASE step = "AnimateMaterials" ->
            [st EXCEPT !.mMaterials = AnimateMaterials(@, gt.DeltaTime)]
      [] step = "UpdateObjectCBs" ->
            [st EXCEPT !.fr = [@ EXCEPT !.ObjectCB = ObjectCBAfter(st.mAllRitems, @, 1)],
                       !.writes = @ \cup ObjectCBWrites(st.mAllRitems, mCurrFrameResource),
                       !.mAllRitems = RitemsAfter(@)]
      [] step = "UpdateMaterialCBs" ->
            [st EXCEPT !.fr = [@ EXCEPT !.MaterialCB = MaterialCBAfter(st.mMaterials, @)],
                       !.writes = @ \cup MaterialCBWrites(st.mMaterials, mCurrFrameResource),
                       !.mMaterials = MaterialsAfter(@)]
      [] step = "UpdateMainPassCB" ->
            [st EXCEPT !.mMainPassCB = PassConstantsOf(mCamera, gt),
                       !.fr = [@ EXCEPT !.PassCB = PassConstantsOf(mCamera, gt)]]
      [] step = "UpdateWaves" ->
            LET due == DisturbDue(gt.TotalTime, st.t_base)
                w   == WavesAfter(st.mWaves, gt.TotalTime, st.t_base)
            IN [st EXCEPT !.t_base = IF due THEN AdvanceTimeBase(@, gt.TotalTime) ELSE @,
                          !.disturbTimes = IF due THEN Append(@, gt.TotalTime) ELSE @,
                          !.disturbCell = IF due THEN <<i, j>> ELSE <<>>,
                          !.mWaves = w,
                          !.fr = [@ EXCEPT !.WavesVB = CopyWaveVertices(@, w, VertexCount)],
                          !.VertexBufferGPU = RepointWavesVB(@, mCurrFrameResource)]

RECURSIVE RunUpdateSteps(_, _, _, _, _)
RunUpdateSteps(steps, n, st, i, j) ==
    IF n > Len(steps) THEN st
    ELSE RunUpdateSteps(steps, n + 1,
            [ApplyUpdateStep(steps[n], st, i, j) EXCEPT !.log = Append(@, steps[n])], i, j)

\* The rest of Update: AnimateMaterials, UpdateObjectCBs, UpdateMaterialCBs,
\* UpdateMainPassCB, UpdateWaves, all writing the current frame resource.
UpdateWrite ==
    /\ pc = "UpdateWrite"
    /\ \E i \in DisturbRows, j \in DisturbColumns :
        LET st == RunUpdateSteps(UpdateSteps, 1,
                    [mMaterials |-> mMaterials, mAllRitems |-> mAllRitems,
                     mMainPassCB |-> mMainPassCB, t_base |-> t_base, mWaves |-> mWaves,
                     disturbTimes |-> disturbTimes, disturbCell |-> disturbCell,
                     VertexBufferGPU |-> VertexBufferGPU,
                     fr |-> mFrameResources[mCurrFrameResource], log |-> updateLog,
                     writes |-> {}], i, j)
        IN /\ mMaterials' = st.mMaterials
           /\ mAllRitems' = st.mAllRitems
           /\ mMainPassCB' = st.mMainPassCB
           /\ t_base' = st.t_base
           /\ mWaves' = st.mWaves
           /\ disturbTimes' = st.disturbTimes
           /\ disturbCell' = st.disturbCell
           /\ VertexBufferGPU' = st.VertexBufferGPU
           /\ mFrameResources' = [mFrameResources EXCEPT ![mCurrFrameResource] = st.fr]
           /\ updateLog' = st.log
           /\ cbWrites' = st.writes
    /\ numUpdates' = numUpdates + 1
    /\ pc' = "Draw"
    /\ UNCHANGED <<gt, mCamera, mCurrFrameResourceIndex, mCurrFrameResource, mCommandList,
                   mCommandQueue, mCurrentFence, mFence, eventHandle, numIgnored,
                   slotHistory, submitHistory, stampHistory, failedCalls, maxDt, bNoClip,
                   mPitch, mYaw, mLastMousePos, lastInput>>

\* -------------------------------------------------------------- Draw stage
\* DrawRenderItems(cmdList, ritems): one draw call per entry of the list,
\* binding the current slot's object and material constants
DrawRenderItems_FirstSlot(ritems, pso, slot, wavesVB) ==
    [i \in 1..Len(ritems) |->
        [pso |-> pso, item |-> ritems[i], slot |-> 0,
         ObjCBIndex |-> mAllRitems[ritems[i]].ObjCBIndex,
         MatCBIndex |-> mMaterials[mAllRitems[ritems[i]].Mat].MatCBIndex,
         tex |-> mMaterials[mAllRitems[ritems[i]].Mat].DiffuseSrvHeapIndex,
         vertexBuffer |-> IF ritems[i] = 1 THEN wavesVB ELSE "static"]]
DrawRenderItems(ritems, pso, slot, wavesVB) ==
    [i \in 1..Len(ritems) |->
        [pso |-> pso, item |-> ritems[i], slot |-> slot,
         ObjCBIndex |-> mAllRitems[ritems[i]].ObjCBIndex,
         MatCBIndex |-> mMaterials[mAllRitems[ritems[i]].Mat].MatCBIndex,
         tex |-> mMaterials[mAllRitems[ritems[i]].Mat].DiffuseSrvHeapIndex,
         vertexBuffer |-> IF ritems[i] = 1 THEN wavesVB ELSE "static"]]

\* the four DrawRenderItems calls of Draw with the pipeline state bound
\* before each, in statement order
DrawPasses_EnumOrder ==
    << [pso |-> "opaque", layer |-> Opaque],
       [pso |-> "transparent", layer |-> Transparent],
       [pso |-> "alphaTested", layer |-> AlphaTested],
       [pso |-> "treeSprites", layer |-> AlphaTestedTreeSprites] >>
DrawPasses ==
    << [pso |-> "opaque", layer |-> Opaque],
       [pso |-> "alphaTested", layer |-> AlphaTested],
       [pso |-> "treeSprites", layer |-> AlphaTestedTreeSprites],
       [pso |-> "transparent", layer |-> Transparent] >>

RECURSIVE RecordPasses(_, _, _, _)
RecordPasses(passes, n, slot, wavesVB) ==
    IF n > Len(passes) THEN <<>>
    ELSE DrawRenderItems(mRitemLayer[passes[n].layer], passes[n].pso, slot, wavesVB)
            \o RecordPasses(passes, n + 1, slot, wavesVB)

\* Draw from the allocator reset to mCommandList->Close(): three checked
\* calls, each of which may fail.
DrawRecord ==
    /\ pc = "Draw"
    /\ \E r \in {"ok", "CmdListAlloc->Reset", "mCommandList->Reset", "mCommandList->Close"} :
        /\ mCommandList' =
              IF r \in {"ok", "mCommandList->Close"}
              THEN RecordPasses(DrawPasses, 1, mCurrFrameResource, VertexBufferGPU)
              ELSE mCommandList
        /\ pc' = ThrowIfFailed(r = "ok", "Execute")
        /\ failedCalls' = IF r = "ok" THEN failedCalls ELSE failedCalls \cup {r}
    /\ disturbCell' = <<>>
    /\ UNCHANGED <<gt, mCamera, mCurrFrameResourceIndex, mCurrFrameResource,
                   mFrameResources, mAllRitems, mMaterials, mMainPassCB, t_base, mWaves,
                   VertexBufferGPU, mCommandQueue, mCurrentFence, mFence, eventHandle,
                   numIgnored, numUpdates, slotHistory, submitHistory, stampHistory, maxDt,
                   disturbTimes, updateLog, bNoClip, mPitch, mYaw, mLastMousePos,
                   lastInput, cbWrites>>

\* mCommandQueue->ExecuteCommandLists
DrawExecute ==
    /\ pc = "Execute"
    /\ mCommandQueue' = Append(mCommandQueue,
            [type |-> "exec", frame |-> Len(submitHistory) + 1,
             slot |-> mCurrFrameResource, cmds |-> mCommandList])
    /\ submitHistory' = Append(submitHistory, mCurrFrameResource)
    /\ pc' = "Present"
    /\ UNCHANGED <<gt, mCamera, mCurrFrameResourceIndex, mCurrFrameResource,
                   mFrameResources, mAllRitems, mMaterials, mMainPassCB, t_base, mWaves,
                   VertexBufferGPU, mCommandList, mCurrentFence, mFence, eventHandle,
                   numIgnored, numUpdates, slotHistory, stampHistory, failedCalls, maxDt,
                   disturbTimes, disturbCell, updateLog, bNoClip, mPitch, mYaw,
                   mLastMousePos, lastInput, cbWrites>>

\* ThrowIfFailed(mSwapChain->Present(0, 0))
DrawPresent ==
    /\ pc = "Present"
    /\ \E ok \in BOOLEAN :
        /\ pc' = ThrowIfFailed(ok, "Signal")
        /\ failedCalls' = IF ok THEN failedCalls ELSE failedCalls \cup {"Present"}
    /\ UNCHANGED <<gt, mCamera, mCurrFrameResourceIndex, mCurrFrameResource,
                   mFrameResources, mAllRitems, mMaterials, mMainPassCB, t_base, mWaves,
                   VertexBufferGPU, mCommandList, mCommandQueue, mCurrentFence, mFence,
                   eventHandle, numIgnored, numUpdates, slotHistory, submitHistory,
                   stampHistory, maxDt, disturbTimes, disturbCell, updateLog, bNoClip,
                   mPitch, mYaw, mLastMousePos, lastInput, cbWrites>>

AdvanceFence_ByTwo(f) == f + 2
AdvanceFence(f) == f + 1
\* value of the expression ++mCurrentFence, given the old counter
StampedFence_PostIncrement(f) == f
StampedFence(f) == AdvanceFence(f)

\* mCommandQueue->Signal(mFence.Get(), mCurrentFence): the fence point goes
\* behind everything submitted to the queue before the call
EnqueueSignal_BeforeFrame(queue, value) ==
    IF queue = <<>> THEN <<[type |-> "signal", value |-> value]>>
    ELSE SubSeq(queue, 1, Len(queue) - 1)
            \o <<[type |-> "signal", value |-> value], queue[Len(queue)]>>
EnqueueSignal(queue, value) == Append(queue, [type |-> "signal", value |-> value])

\* mCurrFrameResource->Fence = ++mCurrentFence; mCommandQueue->Signal(...).
\* The HRESULT of Signal is not tested: when it fails no fence point is
\* queued and Draw returns normally.
DrawSignal ==
    /\ pc = "Signal"
    /\ mCurrentFence' = AdvanceFence(mCurrentFence)
    /\ mFrameResources' = [mFrameResources EXCEPT
            ![mCurrFrameResource].Fence = StampedFence(mCurrentFence)]
    /\ stampHistory' = Append(stampHistory, mFrameResources'[mCurrFrameResource].Fence)
    /\ \E ok \in BOOLEAN :
        /\ ~ok => numIgnored < MaxIgnoredFailures
        /\ numIgnored' = IF ok THEN numIgnored ELSE numIgnored + 1
        /\ mCommandQueue' = IF ok
              THEN EnqueueSignal(mCommandQueue, mCurrentFence')
              ELSE mCommandQueue
        /\ failedCalls' = IF ok THEN failedCalls ELSE failedCalls \cup {"Signal"}
    /\ pc' = "Update"
    /\ UNCHANGED <<gt, mCamera, mCurrFrameResourceIndex, mCurrFrameResource, mAllRitems,
                   mMaterials, mMainPassCB, t_base, mWaves, VertexBufferGPU, mCommandList,
                   mFence, eventHandle, numUpdates, slotHistory, submitHistory, maxDt,
                   disturbTimes, disturbCell, updateLog, bNoClip, mPitch, mYaw,
                   mLastMousePos, lastInput, cbWrites>>

\* ------------------------------------------------------------- termination
\* The run loop of the base class ends at a frame boundary (quit message)
\* and WinMain's return statement destroys theApp.
RunReturn ==
    /\ pc = "Update"
    /\ pc' = "RunReturned"
    /\ UNCHANGED <<gt, mCamera, mCurrFrameResourceIndex, mCurrFrameResource,
                   mFrameResources, mAllRitems, mMaterials, mMainPassCB, t_base, mWaves,
                   VertexBufferGPU, mCommandList, mCommandQueue, mCurrentFence, mFence,
                   eventHandle, numIgnored, numUpdates, slotHistory, submitHistory,
                   stampHistory, failedCalls, maxDt, disturbTimes, disturbCell, updateLog,
                   bNoClip, mPitch, mYaw, mLastMousePos, lastInput, cbWrites>>

\* md3dDevice after a successful Initialize()
md3dDevice == "device"

\* ~TreeBillboardsApp: if(md3dDevice != nullptr) FlushCommandQueue();
DestructorFlushes_Never(device) == FALSE
DestructorFlushes(device) == device # "nullptr"

\* ~TreeBillboardsApp, entered from WinMain's return or from the unwinding
\* of theApp's scope when a DxException leaves Update or Draw.  The flush
\* queues a new fence point behind everything submitted so far.
Destructor ==
    /\ pc \in {"Thrown", "RunReturned"}
    /\ IF DestructorFlushes(md3dDevice)
       THEN /\ mCurrentFence' = mCurrentFence + 1
            /\ mCommandQueue' = Append(mCommandQueue,
                    [type |-> "signal", value |-> mCurrentFence'])
            /\ pc' = IF pc = "Thrown" THEN "UnwindFlush" ELSE "ReturnFlush"
       ELSE /\ mCurrentFence' = mCurrentFence
            /\ mCommandQueue' = mCommandQueue
            /\ pc' = IF pc = "Thrown" THEN "Unwound" ELSE "Destroyed"
    /\ UNCHANGED <<gt, mCamera, mCurrFrameResourceIndex, mCurrFrameResource,
                   mFrameResources, mAllRitems, mMaterials, mMainPassCB, t_base, mWaves,
                   VertexBufferGPU, mCommandList, mFence, eventHandle, numIgnored,
                   numUpdates, slotHistory, submitHistory, stampHistory, failedCalls,
                   maxDt, disturbTimes, disturbCell, updateLog, bNoClip, mPitch, mYaw,
                   mLastMousePos, lastInput, cbWrites>>

\* The flush returns once the GPU has reached its fence point; the
\* destructor body ends and the members (frame resources, buffers, heaps)
\* are released.
FlushCommandQueue ==
    /\ pc \in {"UnwindFlush", "ReturnFlush"}
    /\ mFence >= mCurrentFence
    /\ pc' = IF pc = "UnwindFlush" THEN "Unwound" ELSE "Destroyed"
    /\ UNCHANGED <<gt, mCamera, mCurrFrameResourceIndex, mCurrFrameResource,
                   mFrameResources, mAllRitems, mMaterials, mMainPassCB, t_base, mWaves,
                   VertexBufferGPU, mCommandList, mCommandQueue, mCurrentFence, mFence,
                   eventHandle, numIgnored, numUpdates, slotHistory, submitHistory,
                   stampHistory, failedCalls, maxDt, disturbTimes, disturbCell, updateLog,
                   bNoClip, mPitch, mYaw, mLastMousePos, lastInput, cbWrites>>

\* WinMain: catch (DxException&) shows the message box and returns 0; the
\* handler runs after theApp has been destroyed by the unwinding
WinMainCatch ==
    /\ pc = "Unwound"
    /\ pc' = "Terminated"
    /\ UNCHANGED <<gt, mCamera, mCurrFrameResourceIndex, mCurrFrameResource,
                   mFrameResources, mAllRitems, mMaterials, mMainPassCB, t_base, mWaves,
                   VertexBufferGPU, mCommandList, mCommandQueue, mCurrentFence, mFence,
                   eventHandle, numIgnored, numUpdates, slotHistory, submitHistory,
                   stampHistory, failedCalls, maxDt, disturbTimes, disturbCell, updateLog,
                   bNoClip, mPitch, mYaw, mLastMousePos, lastInput, cbWrites>>

\* WinMain: return theApp.Run();
WinMainReturn ==
    /\ pc = "Destroyed"
    /\ pc' = "Terminated"
    /\ UNCHANGED <<gt, mCamera, mCurrFrameResourceIndex, mCurrFrameResource,
                   mFrameResources, mAllRitems, mMaterials, mMainPassCB, t_base, mWaves,
                   VertexBufferGPU, mCommandList, mCommandQueue, mCurrentFence, mFence,
                   eventHandle, numIgnored, numUpdates, slotHistory, submitHistory,
                   stampHistory, failedCalls, maxDt, disturbTimes, disturbCell, updateLog,
                   bNoClip, mPitch, mYaw, mLastMousePos, lastInput, cbWrites>>

\* --------------------------------------------------------------------- GPU
\* The GPU retires the head of the queue: a command list finishes, or a
\* fence point is reached and the fence takes its value.
GpuStep ==
    /\ mCommandQueue # <<>>
    /\ pc # "Terminated"
    /\ mFence' = IF Head(mCommandQueue).type = "signal"
                 THEN Head(mCommandQueue).value ELSE mFence
    /\ mCommandQueue' = Tail(mCommandQueue)
    /\ UNCHANGED <<pc, gt, mCamera, mCurrFrameResourceIndex, mCurrFrameResource,
                   mFrameResources, mAllRitems, mMaterials, mMainPassCB, t_base, mWaves,
                   VertexBufferGPU, mCommandList, mCurrentFence, eventHandle, numIgnored,
                   numUpdates, slotHistory, submitHistory, stampHistory, failedCalls,
                   maxDt, disturbTimes, disturbCell, updateLog, bNoClip, mPitch, mYaw,
                   mLastMousePos, lastInput, cbWrites>>

Next ==
    \/ UpdateAdvance
    \/ UpdateCreateEvent
    \/ UpdateSetEvent
    \/ UpdateWaitForSingleObject
    \/ UpdateWrite
    \/ DrawRecord
    \/ DrawExecute
    \/ DrawPresent
    \/ DrawSignal
    \/ RunReturn
    \/ Destructor
    \/ FlushCommandQueue
    \/ WinMainCatch
    \/ WinMainReturn
    \/ GpuStep

Spec == Init /\ [][Next]_vars

\* ------------------------------------------------------ input handlers alone
\* pixel coordinates and button states delivered with the mouse messages
MouseCoords == {0, MaxMouse}
NoClipKeySets == {{"1"}, {"2"}, {"1", "2"}}

\* if (bNoClip) mCamera.Pitch(dy);
PitchApplies_Always(noClip) == TRUE
PitchApplies(noClip) == noClip

\* Camera::Pitch(angle) and Camera::RotateY(angle) turn the camera by the
\* angle; the accumulated angle is not limited
CameraRotate(total, angle) == total + angle

OnMouseDown ==
    /\ pc = "Update"
    /\ \E x \in MouseCoords, y \in MouseCoords :
        mLastMousePos' = [x |-> x, y |-> y]
    /\ lastInput' = [kind |-> "down", button |-> TRUE]
    /\ UNCHANGED <<pc, gt, mCamera, mCurrFrameResourceIndex, mCurrFrameResource,
                   mFrameResources, mAllRitems, mMaterials, mMainPassCB, t_base, mWaves,
                   VertexBufferGPU, mCommandList, mCommandQueue, mCurrentFence, mFence,
                   eventHandle, numIgnored, numUpdates, slotHistory, submitHistory,
                   stampHistory, failedCalls, maxDt, disturbTimes, disturbCell, updateLog,
                   bNoClip, mPitch, mYaw, cbWrites>>

\* a pixel is a quarter of a degree: dx and dy in quarter degrees
OnMouseMove ==
    /\ pc = "Update"
    /\ \E button \in BOOLEAN, x \in MouseCoords, y \in MouseCoords :
        LET dx == x - mLastMousePos.x
            dy == y - mLastMousePos.y
        IN /\ mPitch' = IF button /\ PitchApplies(bNoClip)
                        THEN CameraRotate(mPitch, dy) ELSE mPitch
           /\ mYaw' = IF button THEN CameraRotate(mYaw, dx) ELSE mYaw
           /\ Abs(mPitch') <= MaxPitch
           /\ Abs(mYaw') <= MaxPitch
           /\ mLastMousePos' = [x |-> x, y |-> y]
           /\ lastInput' = [kind |-> "move", button |-> button]
    /\ UNCHANGED <<pc, gt, mCamera, mCurrFrameResourceIndex, mCurrFrameResource,
                   mFrameResources, mAllRitems, mMaterials, mMainPassCB, t_base, mWaves,
                   VertexBufferGPU, mCommandList, mCommandQueue, mCurrentFence, mFence,
                   eventHandle, numIgnored, numUpdates, slotHistory, submitHistory,
                   stampHistory, failedCalls, maxDt, disturbTimes, disturbCell, updateLog,
                   bNoClip, cbWrites>>

\* OnKeyboardInput polled with the no-clip keys down
InputKeys ==
    /\ pc = "Update"
    /\ \E keys \in NoClipKeySets :
        /\ bNoClip' = NoClipAfter(bNoClip, keys)
        /\ mCamera' = OnKeyboardInput(mCamera, keys, gt.DeltaTime)
    /\ lastInput' = [kind |-> "keys", button |-> FALSE]
    /\ UNCHANGED <<pc, gt, mCurrFrameResourceIndex, mCurrFrameResource, mFrameResources,
                   mAllRitems, mMaterials, mMainPassCB, t_base, mWaves, VertexBufferGPU,
                   mCommandList, mCommandQueue, mCurrentFence, mFence, eventHandle,
                   numIgnored, numUpdates, slotHistory, submitHistory, stampHistory,
                   failedCalls, maxDt, disturbTimes, disturbCell, updateLog, mPitch, mYaw,
                   mLastMousePos, cbWrites>>

NextInput ==
    \/ OnMouseDown
    \/ OnMouseMove
    \/ InputKeys

SpecInput == Init /\ [][NextInput]_vars

\* ------------------------------------------------- material scroll alone
\* AnimateMaterials applied frame after frame to the water material, over
\* frame times that include very long frames (20 s)
ScrollDtSet == {1, 7, LongDt, HugeDt}

AnimateStep ==
    /\ pc = "Update"
    /\ \E dt \in ScrollDtSet :
        /\ gt.TotalTime + dt <= MaxScrollTime
        /\ gt' = [TotalTime |-> gt.TotalTime + dt, DeltaTime |-> dt]
        /\ maxDt' = IF dt > maxDt THEN dt ELSE maxDt
        /\ mMaterials' = AnimateMaterials(mMaterials, dt)
    /\ UNCHANGED <<pc, mCamera, mCurrFrameResourceIndex, mCurrFrameResource,
                   mFrameResources, mAllRitems, mMainPassCB, t_base, mWaves,
                   VertexBufferGPU, mCommandList, mCommandQueue, mCurrentFence, mFence,
                   eventHandle, numIgnored, numUpdates, slotHistory, submitHistory,
                   stampHistory, failedCalls, disturbTimes, disturbCell, updateLog,
                   bNoClip, mPitch, mYaw, mLastMousePos, lastInput, cbWrites>>

NextScroll == AnimateStep

SpecScroll == Init /\ [][NextScroll]_vars

\* ================================================================== claims
N == gNumFrameResources
Min(a, b) == IF a < b THEN a ELSE b
Max(a, b) == IF a > b THEN a ELSE b
CurrFence == mFrameResources[mCurrFrameResource].Fence
ExecSlots == {mCommandQueue[i].slot : i \in {j \in 1..Len(mCommandQueue) : mCommandQueue[j].type = "exec"}}
WaitPcs == {"CreateEvent", "SetEvent", "WaitForSingleObject"}
DrawPcs == {"Draw", "Execute", "Present", "Signal"}
\* an exception is in flight or was handled
ExceptionPcs == {"Thrown", "UnwindFlush", "Unwound", "Terminated"}
\* theApp's members have been released
ReleasedPcs == {"Unwound", "Destroyed", "Terminated"}

\* ---- C1
C1_WriteSafe ==
    pc = "UpdateWrite" =>
        /\ mCurrFrameResource = mCurrFrameResourceIndex
        /\ CurrFence = 0 \/ CurrFence <= mFence
        /\ mCurrFrameResource \notin ExecSlots

C1_OnlyCurrentSlotWritten ==
    pc = "UpdateWrite" /\ pc' # "UpdateWrite" =>
        /\ mFrameResources'[mCurrFrameResource] # mFrameResources[mCurrFrameResource]
        /\ \A s \in Slots \ {mCurrFrameResource} : mFrameResources'[s] = mFrameResources[s]

\* C1: when Update starts writing the current frame resource (after its
\* fence test), that slot's stamped Fence is 0 or at most the completed fence
\* value, no command list still queued on the GPU references the slot, and
\* the Update writes that slot and no other.
C1_FenceBeforeWrite == [](C1_WriteSafe) /\ [][C1_OnlyCurrentSlotWritten]_vars

\* a slot that was in flight is rewritten while later frames are still queued
C1_Witness ==
    /\ pc = "UpdateWrite"
    /\ CurrFence # 0
    /\ ExecSlots # {}

\* ---- C2
C2_Select ==
    pc = "Update" /\ pc' \notin {"Update", "RunReturned"} =>
        /\ mCurrFrameResourceIndex' = (mCurrFrameResourceIndex + 1) % 3
        /\ LET f == mFrameResources[mCurrFrameResourceIndex'].Fence
           IN /\ pc' = "CreateEvent" <=> (f # 0 /\ mFence < f)
              /\ pc' = "UpdateWrite" <=> ~(f # 0 /\ mFence < f)

C2_Resume ==
    pc \in WaitPcs /\ pc' = "UpdateWrite" => mFence >= CurrFence

\* C2: each Update selects slot (previous + 1) mod 3 and enters the fence
\* wait exactly when the selected slot's Fence is nonzero and the completed
\* fence value is below it; it leaves the wait for the writes only once the
\* completed value has reached that Fence, and otherwise goes straight on.
C2_AdvanceBlocksIffInFlight == [][C2_Select]_vars /\ [][C2_Resume]_vars

\* the CPU is held in the wait while the GPU has not reached the Fence
C2_Witness ==
    /\ pc = "WaitForSingleObject"
    /\ eventHandle = "valid"
    /\ mFence < CurrFence

\* ---- C3
\* submitted frames whose fence value the GPU has not completed; a frame
\* submitted but not yet stamped counts as not completed
InFlight ==
    Cardinality({k \in 1..Len(submitHistory) :
                    k > Len(stampHistory) \/ stampHistory[k] > mFence})

\* C3 as stated: the number of submitted frames the GPU has not completed
\* never exceeds N - 1 = 2.
C3_Original_LeadAtMostNMinus1 == InFlight <= N - 1

\* C3 amended: the number of submitted frames the GPU has not completed
\* never exceeds N = 3.
C3_LeadAtMostN == InFlight <= 3

C3_Witness == InFlight = 3 /\ pc \in WaitPcs

\* ---- C4
C4_Consecutive ==
    \A k \in 1..(Len(stampHistory) - 1) : stampHistory[k + 1] = stampHistory[k] + 1

C4_DrawStep ==
    pc = "Signal" /\ pc' # "Signal" =>
        /\ mCurrentFence' = mCurrentFence + 1
        /\ mFrameResources'[mCurrFrameResource].Fence = mCurrentFence'

\* C4: every Draw increments the CPU fence counter by exactly 1 and stamps
\* the new value into the current slot; the values stamped by consecutive
\* frames differ by exactly 1.
C4_FenceIncrementsByOne == [](C4_Consecutive) /\ [][C4_DrawStep]_vars

C4_Witness == Len(stampHistory) >= 4 /\ pc = "Update"

\* ---- C5
SlotsAre(expected) ==
    /\ \A i \in 1..Min(Len(slotHistory), 5) : slotHistory[i] = expected[i]
    /\ \A i \in 1..Min(Len(submitHistory), 5) : submitHistory[i] = expected[i]

\* C5 as stated: the slots used by the first five frames are 0,1,2,0,1.
C5_Original_RingStartsAtZero == SlotsAre(<<0, 1, 2, 0, 1>>)

\* C5 amended: the slots written by Update and read by Draw in the first
\* five frames are 1,2,0,1,2 (the index starts at 0 and is advanced before
\* its first use).
C5_RingStartsAtOne == SlotsAre(<<1, 2, 0, 1, 2>>)

C5_Witness == Len(submitHistory) >= 5

\* ---- C6
StaticMaterials == MaterialNames \ {"water"}

\* C6 as stated: every RenderItem and every Material, the water material
\* included, has NumFramesDirty = 0 once N Updates have run since it was set
\* to N, and no counter is negative.
C6_Original_AllCountersReachZero ==
    /\ \A p \in 1..Len(mAllRitems) : mAllRitems[p].NumFramesDirty >= 0
    /\ \A n \in MaterialNames : mMaterials[n].NumFramesDirty >= 0
    /\ numUpdates >= N =>
        /\ \A p \in 1..Len(mAllRitems) : mAllRitems[p].NumFramesDirty = 0
        /\ \A n \in MaterialNames : mMaterials[n].NumFramesDirty = 0

\* C6 amended: the counter of every RenderItem and of every material other
\* than water, set to N at creation, is N - u after u <= N Updates and 0 from
\* the N-th Update on; the water material is set to N again in every Update
\* and so holds N - 1 after every Update and never reaches 0; no counter is
\* ever negative.
C6_DirtyCountdown ==
    /\ \A p \in 1..Len(mAllRitems) :
            mAllRitems[p].NumFramesDirty = Max(3 - numUpdates, 0)
    /\ \A n \in StaticMaterials :
            mMaterials[n].NumFramesDirty = Max(3 - numUpdates, 0)
    /\ mMaterials["water"].NumFramesDirty = (IF numUpdates = 0 THEN 3 ELSE 2)
    /\ \A n \in MaterialNames : mMaterials[n].NumFramesDirty >= 0

C6_Witness ==
    /\ numUpdates = N + 1
    /\ mAllRitems[1].NumFramesDirty = 0
    /\ mMaterials["water"].NumFramesDirty = N - 1

\* ---- C7
TransposeOf(m) == [i \in 1..4 |-> [j \in 1..4 |-> m[j][i]]]

C7_SlotCurrent(k) ==
    /\ \A p \in 1..Len(mAllRitems) :
          mFrameResources[k].ObjectCB[mAllRitems[p].ObjCBIndex] =
              [World |-> TransposeOf(mAllRitems[p].World),
               TexTransform |-> TransposeOf(mAllRitems[p].TexTransform)]
    /\ \A n \in MaterialNames :
          mFrameResources[k].MaterialCB[mMaterials[n].MatCBIndex] =
              [Roughness |-> mMaterials[n].Roughness,
               MatTransform |-> TransposeOf(MatTransformOf(mMaterials[n].tu, mMaterials[n].tv))]
    /\ mFrameResources[k].PassCB = mMainPassCB
    /\ mMainPassCB # Unset
    /\ mMainPassCB.EyePosW = mCamera
    /\ mMainPassCB.TotalTime = gt.TotalTime
    /\ mMainPassCB.DeltaTime = gt.DeltaTime

\* C7: throughout every Draw, each RenderItem's and each Material's entry in
\* the current slot's constant buffer equals the transposed current CPU-side
\* value of that record, also for the records that the preceding Update
\* skipped as clean, and the slot's pass-constant entry equals the pass
\* constants the preceding Update computed from the camera and the timer.
C7_NoStaleConstants == pc \in DrawPcs => C7_SlotCurrent(mCurrFrameResource)

\* a Draw on a reused slot whose object constants the Update skipped
C7_Witness ==
    /\ pc = "Draw"
    /\ numUpdates > N
    /\ mAllRitems[1].NumFramesDirty = 0
    /\ mMaterials["water"].tu # 0

\* ---- C8
PsoRank(p) ==
    CASE p = "opaque" -> 0 [] p = "alphaTested" -> 1
      [] p = "treeSprites" -> 2 [] p = "transparent" -> 3
LayerRank(l) ==
    CASE l = Opaque -> 0 [] l = AlphaTested -> 1
      [] l = AlphaTestedTreeSprites -> 2 [] l = Transparent -> 3

\* C8: in the command list a Draw records, every draw call is issued under
\* the pipeline state of its item's layer, and the calls are in the order
\* opaque, alpha-tested, alpha-tested billboards, transparent, whatever the
\* insertion order of the items and the numeric order of RenderLayer.
C8_LayerOrder ==
    /\ \A i \in 1..Len(mCommandList) :
          PsoRank(mCommandList[i].pso) = LayerRank(mAllRitems[mCommandList[i].item].Layer)
    /\ \A i, j \in 1..Len(mCommandList) :
          i < j => PsoRank(mCommandList[i].pso) <= PsoRank(mCommandList[j].pso)

\* a recorded frame whose first-inserted item (transparent water) is drawn last
C8_Witness ==
    /\ pc = "Execute"
    /\ Len(mCommandList) = Len(mAllRitems)
    /\ mCommandList[Len(mCommandList)].item = 1
    /\ mCommandList[1].pso = "opaque"

\* ---- C9
CheckedFrameCalls ==
    {"SetEventOnCompletion", "CmdListAlloc->Reset", "mCommandList->Reset",
     "mCommandList->Close", "Present", "Signal"}

\* C9: whenever one of the per-frame GPU calls (SetEventOnCompletion,
\* allocator Reset, command-list Reset and Close, Present, queue Signal) has
\* failed, an exception was raised and the process is terminating: the CPU
\* is in no later Update or Draw.
C9_EveryFailureIsFatal ==
    failedCalls \cap CheckedFrameCalls # {} => pc \in ExceptionPcs

\* ---- C10
\* C10: once the creation of the wait event has failed, the process aborts:
\* the CPU is still inside the wait block or has thrown, and never goes on to
\* write the current slot or to draw.
C10_EventFailureAborts ==
    "CreateEventEx" \in failedCalls =>
        pc \in {"SetEvent", "WaitForSingleObject"} \cup ExceptionPcs

\* ---- C11
\* C11: on both termination paths (the run loop returning, and an exception
\* leaving Update or Draw) the resources are released only after the GPU
\* has finished every submitted command list: once theApp's members are
\* released no command list is left in the queue, and the step that
\* releases them is taken with the completed fence value at the flush's
\* fence point.
C11_Released ==
    pc \in ReleasedPcs =>
        \A i \in 1..Len(mCommandQueue) : mCommandQueue[i].type # "exec"

C11_ReleaseStep ==
    pc \notin ReleasedPcs /\ pc' \in ReleasedPcs =>
        /\ mCommandQueue = <<>>
        /\ mFence = mCurrentFence

C11_FlushBeforeRelease == [](C11_Released) /\ [][C11_ReleaseStep]_vars

\* theApp destroyed by unwinding after Present failed on a submitted frame
C11_Witness ==
    /\ pc = "Unwound"
    /\ "Present" \in failedCalls
    /\ Len(submitHistory) > Len(stampHistory)
    /\ Len(submitHistory) >= 2

\* ---- C12
\* capacity of the object-constant buffer of slot s
ObjectCapacity(s) == Cardinality(DOMAIN mFrameResources[s].ObjectCB)

C12_Indices ==
    /\ \A p, q \in 1..Len(mAllRitems) :
            p # q => mAllRitems[p].ObjCBIndex # mAllRitems[q].ObjCBIndex
    /\ \A p \in 1..Len(mAllRitems) :
            /\ mAllRitems[p].ObjCBIndex # ObjCBIndexUnset
            /\ mAllRitems[p].ObjCBIndex >= 0
            /\ \A s \in Slots : mAllRitems[p].ObjCBIndex < ObjectCapacity(s)
    /\ \A s \in Slots : ObjectCapacity(s) = Len(mAllRitems)

C12_NoLateItem ==
    /\ Len(mAllRitems') = Len(mAllRitems)
    /\ \A p \in 1..Len(mAllRitems) : mAllRitems'[p].ObjCBIndex = mAllRitems[p].ObjCBIndex
    /\ \A s \in Slots : DOMAIN mFrameResources'[s].ObjectCB = DOMAIN mFrameResources[s].ObjectCB

\* C12: in every state after scene construction the ObjCBIndex values of
\* the items of mAllRitems are pairwise distinct, none is the unset value,
\* each is below the capacity of every slot's object-constant buffer, that
\* capacity is the size of mAllRitems, and no step adds an item, changes an
\* index or resizes a buffer.
C12_ObjCBIndexInCapacity == [](C12_Indices) /\ [][C12_NoLateItem]_vars

\* the last maze wall has been uploaded at the highest index of the buffer
C12_Witness ==
    /\ pc = "Draw"
    /\ Len(mAllRitems) >= 8
    /\ mAllRitems[Len(mAllRitems)].Mat = "grass"
    /\ mAllRitems[Len(mAllRitems)].ObjCBIndex = Len(mAllRitems) - 1
    /\ mFrameResources[mCurrFrameResource].ObjectCB[Len(mAllRitems) - 1] # Unset

\* ---- C13
\* C13 as stated: every disturbance after the first is injected at least
\* 0.25 s (5 ticks) of timer time after the previous one.
C13_Original_QuarterSecondApart ==
    \A k \in 2..Len(disturbTimes) : disturbTimes[k] - disturbTimes[k - 1] >= 5

\* C13 amended: a disturbance is injected only when the timer's total time
\* is at least 0.25 s past t_base, and t_base advances by exactly 0.25 s per
\* disturbance, not to the time of the injection: the k-th disturbance
\* happens at a total time of at least k * 0.25 s, at most one per Update,
\* and t_base is 0.25 s times the number of disturbances so far.
C13_QuarterSecondBudget ==
    /\ \A k \in 1..Len(disturbTimes) : disturbTimes[k] >= 5 * k
    /\ \A k \in 2..Len(disturbTimes) : disturbTimes[k] > disturbTimes[k - 1]
    /\ t_base = 5 * Len(disturbTimes)
    /\ mWaves.disturbs = Len(disturbTimes)
    /\ Len(disturbTimes) <= numUpdates

\* after a long frame two disturbances one short frame apart
C13_Witness ==
    /\ Len(disturbTimes) >= 2
    /\ disturbTimes[2] - disturbTimes[1] < 5

\* ---- C14
\* C14: the cell (i, j) of every Disturb call of UpdateWaves has
\* 4 <= i <= RowCount - 5 and 4 <= j <= ColumnCount - 5.
C14_DisturbInsideMargin ==
    disturbCell # <<>> =>
        /\ 4 <= disturbCell[1] /\ disturbCell[1] <= RowCount - 5
        /\ 4 <= disturbCell[2] /\ disturbCell[2] <= ColumnCount - 5

\* a disturbance at the first admissible row and the last admissible column
C14_Witness ==
    /\ pc = "Draw"
    /\ disturbCell = <<4, 123>>
    /\ Len(disturbTimes) >= 2

\* ---- C15
\* C15 as stated: after any sequence of frame times summing to T the water
\* offsets are (0.1 * T) mod 1.0 and (0.02 * T) mod 1.0 (the initial
\* offsets are 0; thousandths, T in ticks of 0.05 s).
C15_Original_ScrollIsMod ==
    /\ mMaterials["water"].tu = (5 * gt.TotalTime) % 1000
    /\ mMaterials["water"].tv = (1 * gt.TotalTime) % 1000

\* C15 amended: the offset equals (rate * T) mod 1.0 as long as no single
\* frame advanced it by more than 1.0, i.e. rate * dt <= 1.0 for every frame
\* so far; the single subtraction then also keeps it in [0, 1).
C15_ScrollIsModForBoundedSteps ==
    /\ 5 * maxDt <= 1000 =>
            /\ mMaterials["water"].tu = (5 * gt.TotalTime) % 1000
            /\ mMaterials["water"].tu < 1000
    /\ 1 * maxDt <= 1000 =>
            /\ mMaterials["water"].tv = (1 * gt.TotalTime) % 1000
            /\ mMaterials["water"].tv < 1000

\* both offsets have wrapped, the first one on a 10 s frame
C15_Witness ==
    /\ maxDt = LongDt
    /\ gt.TotalTime > 1000
    /\ mMaterials["water"].tu < 5 * gt.TotalTime
    /\ mMaterials["water"].tv < gt.TotalTime

\* ---- C16
\* pcs of the frame loop (Update and Draw)
FramePcs == {"Update", "UpdateWrite"} \cup WaitPcs \cup DrawPcs

C16_BoundedLead ==
    pc \in FramePcs =>
        /\ mCurrentFence - mFence <= 3
        /\ pc = "UpdateWrite" =>
                \A i \in 1..Len(mCommandQueue) :
                    mCommandQueue[i].type = "exec" =>
                        mCommandQueue[i].slot # mCurrFrameResource

C16_StaysBlocked ==
    pc \in WaitPcs /\ mFence' < mFrameResources[mCurrFrameResource].Fence =>
        pc' \in WaitPcs \cup {"Thrown"}

\* C16: while the GPU completes no further fence value the CPU fence
\* counter is never more than N = 3 ahead of the completed value, the slot
\* Update writes is referenced by no queued command list, and a CPU that
\* has entered the fence wait stays in it in every step that leaves the
\* completed value below the slot's Fence: the wait has no timeout and no
\* other way out than the exception of a failed SetEventOnCompletion.
C16_HungGpuBlocksCpu == [](C16_BoundedLead) /\ [][C16_StaysBlocked]_vars

\* the GPU has retired nothing of three submitted frames and the CPU waits
C16_Witness ==
    /\ pc = "WaitForSingleObject"
    /\ eventHandle = "valid"
    /\ mCurrentFence - mFence = 3
    /\ Len(mCommandQueue) = 6
    /\ mFence < mFrameResources[mCurrFrameResource].Fence

\* ---- C17
\* the calls of Draw that are wrapped in ThrowIfFailed
DrawCheckedCalls ==
    {"CmdListAlloc->Reset", "mCommandList->Reset", "mCommandList->Close", "Present"}

C17_Aborted ==
    failedCalls \cap DrawCheckedCalls # {} => pc \in ExceptionPcs

C17_NothingLater ==
    failedCalls' \cap DrawCheckedCalls # {} =>
        /\ submitHistory' = submitHistory
        /\ stampHistory' = stampHistory
        /\ \A s \in Slots : mFrameResources'[s].Fence = mFrameResources[s].Fence
        /\ \/ mCurrentFence' = mCurrentFence
           \/ pc = "Thrown" /\ pc' = "UnwindFlush"

\* C17: once a checked call of Draw has failed the CPU is on the exception
\* path and never in a later step of that Draw or in another frame; in the
\* failing step and in every step after it no frame is submitted, no fence
\* value is stamped, every slot keeps its Fence, and the CPU fence counter
\* keeps its value until the flush of theApp's destructor.
C17_FailedDrawStops == [](C17_Aborted) /\ [][C17_NothingLater]_vars

\* Present failed after the second frame's commands were submitted
C17_Witness ==
    /\ pc = "Thrown"
    /\ "Present" \in failedCalls
    /\ Len(stampHistory) = 1
    /\ Len(submitHistory) = 2
    /\ mCurrentFence = stampHistory[1]

\* ---- C18
\* the four buffers of slot s
SlotBuffers(s) ==
    <<mFrameResources[s].ObjectCB, mFrameResources[s].MaterialCB,
      mFrameResources[s].PassCB, mFrameResources[s].WavesVB>>

C18_Order ==
    pc \in DrawPcs =>
        /\ updateLog = <<"OnKeyboardInput", "UpdateCamera", "AnimateMaterials",
                         "UpdateObjectCBs", "UpdateMaterialCBs", "UpdateMainPassCB",
                         "UpdateWaves">>
        /\ mWaves.steps = numUpdates
        /\ mFrameResources[mCurrFrameResource].PassCB.EyePosW = mCamera
        /\ mFrameResources[mCurrFrameResource].MaterialCB[1].MatTransform[1][4]
                = mMaterials["water"].tu
        /\ (5 * maxDt <= 1000) =>
                mFrameResources[mCurrFrameResource].MaterialCB[1].MatTransform[1][4]
                    = (5 * gt.TotalTime) % 1000
        /\ \A i \in 0..(VertexCount - 1) :
                mFrameResources[mCurrFrameResource].WavesVB[i].steps = numUpdates

C18_WritesAfterWait ==
    \A s \in Slots :
        SlotBuffers(s)' # SlotBuffers(s) =>
            /\ pc = "UpdateWrite"
            /\ s = mCurrFrameResource
            /\ s = slotHistory[Len(slotHistory)]
            /\ Len(slotHistory) = numUpdates + 1
            /\ mFrameResources[s].Fence = 0 \/ mFence >= mFrameResources[s].Fence

\* C18: every Update runs input, camera, material animation, object upload,
\* material upload, pass upload and wave update once each and in this order:
\* after it the pass constants of the slot hold the camera as moved by this
\* frame's input, the water entry of the material buffer holds the offset as
\* animated in this frame, the wave vertices are those of the solution after
\* this frame's simulation step, and a slot's buffers change only in the
\* writes of the Update that selected it, after its ring advance and with
\* its fence reached.
C18_UpdateOrder == [](C18_Order) /\ [][C18_WritesAfterWait]_vars

\* a frame that walked the camera and scrolled the water, written to a
\* slot the CPU had to wait for
C18_Witness ==
    /\ pc = "Draw"
    /\ mCamera # InitialCameraZ
    /\ gt.DeltaTime = 1
    /\ mMainPassCB.EyePosW = mCamera
    /\ numUpdates > N
    /\ mFrameResources[mCurrFrameResource].Fence # 0

\* ---- C19
C19_NotReachedEarly ==
    \A i \in 1..Len(mCommandQueue) :
        (mCommandQueue[i].type = "exec" /\ mCommandQueue[i].frame <= Len(stampHistory))
            => mFence < stampHistory[mCommandQueue[i].frame]

C19_DrawTail ==
    pc = "Signal" /\ pc' # "Signal" =>
        /\ Len(submitHistory) = Len(stampHistory) + 1
        /\ submitHistory[Len(submitHistory)] = mCurrFrameResource
        /\ mCurrentFence' = mCurrentFence + 1
        /\ mFrameResources'[mCurrFrameResource].Fence = mCurrentFence'
        /\ stampHistory' = Append(stampHistory, mCurrentFence')
        /\ \/ mCommandQueue' = mCommandQueue
           \/ mCommandQueue' =
                 Append(mCommandQueue, [type |-> "signal", value |-> mCurrentFence'])

WaveDraws(cmds) == {i \in 1..Len(cmds) : cmds[i].item = 1}

C20_AfterUpdate ==
    pc \in DrawPcs =>
        /\ VertexBufferGPU = mCurrFrameResource
        /\ VertexBufferGPU # NullBuffer
        /\ DOMAIN mFrameResources[mCurrFrameResource].WavesVB = 0..(VertexCount - 1)
        /\ \A i \in 0..(VertexCount - 1) :
                mFrameResources[mCurrFrameResource].WavesVB[i] =
                    [index |-> i, steps |-> mWaves.steps, disturbs |-> mWaves.disturbs]

C20_Recorded ==
    /\ pc \in {"Execute", "Present", "Signal"} =>
            /\ WaveDraws(mCommandList) # {}
            /\ \A i \in WaveDraws(mCommandList) :
                    mCommandList[i].vertexBuffer = mCurrFrameResource
    /\ \A q \in 1..Len(mCommandQueue) :
            mCommandQueue[q].type = "exec" =>
                /\ mCommandQueue[q].slot = submitHistory[mCommandQueue[q].frame]
                /\ \A i \in WaveDraws(mCommandQueue[q].cmds) :
                        mCommandQueue[q].cmds[i].vertexBuffer = mCommandQueue[q].slot

\* C20: after every Update the vertex-buffer reference of the wave mesh is
\* the current slot's wave buffer and every vertex of that buffer is the
\* vertex of the solution this Update computed; the wave draw of every
\* recorded or queued frame references the wave buffer of the slot of that
\* frame, never another slot's buffer and never the null reference.
C20_WaveBufferOfCurrentSlot == C20_AfterUpdate /\ C20_Recorded

\* a reused slot's frame is recorded while an earlier frame, which draws
\* the waves from another slot's buffer, is still queued
C20_Witness ==
    /\ pc = "Execute"
    /\ numUpdates > N
    /\ mWaves.disturbs > 0
    /\ \E q \in 1..Len(mCommandQueue) :
            /\ mCommandQueue[q].type = "exec"
            /\ mCommandQueue[q].slot # mCurrFrameResource

\* ---- C21
C21_UpdateWritesOneSlot ==
    pc = "UpdateWrite" /\ pc' # "UpdateWrite" =>
        /\ mFrameResources'[mCurrFrameResource].Fence
                = mFrameResources[mCurrFrameResource].Fence
        /\ \A s \in 0..2 : s # mCurrFrameResource =>
                mFrameResources'[s] = mFrameResources[s]

C21_DrawReadsOneSlot ==
    pc \in DrawPcs =>
        /\ \A s \in 0..2 :
                /\ mFrameResources'[s].ObjectCB = mFrameResources[s].ObjectCB
                /\ mFrameResources'[s].MaterialCB = mFrameResources[s].MaterialCB
                /\ mFrameResources'[s].PassCB = mFrameResources[s].PassCB
                /\ mFrameResources'[s].WavesVB = mFrameResources[s].WavesVB
                /\ s # mCurrFrameResource =>
                        mFrameResources'[s].Fence = mFrameResources[s].Fence
        /\ mCurrFrameResource' = mCurrFrameResource
        /\ mCommandList' # mCommandList =>
                \A i \in 1..Len(mCommandList') :
                    mCommandList'[i].slot = mCurrFrameResource
        /\ Len(mCommandQueue') > Len(mCommandQueue) /\ pc = "Execute" =>
                mCommandQueue'[Len(mCommandQueue')].slot = mCurrFrameResource

\* C21: the writes of an Update change the buffers of the slot it selected
\* and nothing of the two other slots, and leave the selected slot's Fence
\* alone; during the following Draw no buffer of any slot changes, only the
\* current slot's Fence may change, every recorded draw call binds the
\* current slot's buffers, and the submitted command list is the one
\* recorded on the current slot's allocator.
C21_FrameTouchesOneSlot ==
    [][C21_UpdateWritesOneSlot]_vars /\ [][C21_DrawReadsOneSlot]_vars

\* the second frame is recorded on slot 2 while slot 1 keeps the first
\* frame's pass constants and slot 0 is still unwritten
C21_Witness ==
    /\ pc = "Execute"
    /\ numUpdates = 2
    /\ mCurrFrameResource = 2
    /\ mFrameResources[0].PassCB = Unset
    /\ mFrameResources[1].PassCB # mFrameResources[2].PassCB
    /\ mFrameResources[1].Fence # 0
    /\ mCommandList # <<>>

\* ---- C22
\* number of entries of the layer lists that refer to position p
LayerEntries(p) ==
    Cardinality({<<l, i>> \in (0..3) \X (1..Len(mAllRitems) + 1) :
                    i <= Len(mRitemLayer[l]) /\ mRitemLayer[l][i] = p})

C23_Original_PitchUnconditional ==
    [][(lastInput'.kind = "move" /\ lastInput'.button) =>
            mPitch' = mPitch + (mLastMousePos'.y - mLastMousePos.y)]_vars

C23_MoveStep ==
    lastInput'.kind = "move" =>
        /\ mPitch' = (IF lastInput'.button /\ bNoClip
                      THEN mPitch + (mLastMousePos'.y - mLastMousePos.y) ELSE mPitch)
        /\ mYaw' = (IF lastInput'.button
                    THEN mYaw + (mLastMousePos'.x - mLastMousePos.x) ELSE mYaw)
        /\ bNoClip' = bNoClip

C23_OtherStep ==
    lastInput'.kind # "move" => mPitch' = mPitch /\ mYaw' = mYaw

\* C23 amended: a mouse move with the left button held changes the pitch
\* by the vertical pixel delta (a quarter degree per pixel) only while
\* bNoClip is set, and the yaw by the horizontal delta always; with bNoClip
\* clear, as it is until key 1 is pressed, the pitch keeps its value.  The
\* accumulated pitch is not clamped.
C23_PitchOnlyInNoClip == [][C23_MoveStep]_vars /\ [][C23_OtherStep]_vars

\* no-clip mode on and the camera pitched past 90 degrees (360 quarter
\* degrees) by two drags
C23_Witness ==
    /\ bNoClip
    /\ mPitch > 360
    /\ lastInput = [kind |-> "move", button |-> TRUE]

\* ---- C24
QueuedSignals == {mCommandQueue[i].value :
                    i \in {j \in DOMAIN mCommandQueue : mCommandQueue[j].type = "signal"}}

\* C24 as stated: the fence value an Update waits for has been signaled on
\* the queue by an earlier Draw, so while the GPU has not completed it the
\* fence point of exactly that value is still in the queue.
C24_WaitedValueWasSignaled ==
    pc \in WaitPcs =>
        \/ mFence >= mFrameResources[mCurrFrameResource].Fence
        \/ mFrameResources[mCurrFrameResource].Fence \in QueuedSignals

\* ---- C25
SlotFences == {mFrameResources[k].Fence : k \in Slots}

\* between the ring advance of an Update and the stamp of its Draw the
\* current slot is the oldest one
C25_SelectedIsOldest ==
    pc \in (WaitPcs \cup {"UpdateWrite"} \cup DrawPcs) =>
        /\ \A k \in Slots : CurrFence <= mFrameResources[k].Fence
        /\ Len(slotHistory) <= N => CurrFence = 0 /\ pc \notin WaitPcs

\* a Draw has just returned
C25_StampedIsNewest ==
    (pc = "Update" /\ Len(stampHistory) > 0) =>
        /\ \A k \in Slots : mFrameResources[k].Fence <= CurrFence
        /\ CurrFence = mCurrentFence

C25_StampsDistinct ==
    \A k \in Slots, l \in Slots :
        (k # l /\ mFrameResources[k].Fence # 0) =>
            mFrameResources[k].Fence # mFrameResources[l].Fence

\* C25: the slot an Update selects holds the minimum stamped Fence of all
\* slots, which is 0 in the first N Updates, and these do not wait; when a
\* Draw has returned the current slot holds the maximum stamped Fence, equal
\* to mCurrentFence; the nonzero stamped Fences are pairwise distinct.
C25_RingOrderedByFence ==
    C25_SelectedIsOldest /\ C25_StampedIsNewest /\ C25_StampsDistinct

\* the fifth Update has selected its slot: all slots stamped, the current
\* one lowest
C25_Witness ==
    /\ pc = "UpdateWrite"
    /\ Len(slotHistory) = N + 2
    /\ CurrFence # 0
    /\ \A k \in Slots : k # mCurrFrameResource => mFrameResources[k].Fence > CurrFence

\* ---- C26
\* Draw is about to reset the allocator of the current slot, or records
\* with it
C26_AllocatorIdle ==
    pc \in {"Draw", "Execute"} =>
        /\ CurrFence = 0 \/ CurrFence <= mFence
        /\ \A i \in DOMAIN mCommandQueue :
              mCommandQueue[i].type = "exec" => mCommandQueue[i].slot # mCurrFrameResource

C26_SlotSelected ==
    pc \in DrawPcs =>
        /\ Len(slotHistory) > 0
        /\ numUpdates = Len(slotHistory)
        /\ mCurrFrameResource = slotHistory[Len(slotHistory)]

\* C26: when Draw resets the command allocator of the current slot, the
\* slot's stamped Fence is 0 or at most the completed value of the fence and
\* no command list recorded with that allocator is left in the queue,
\* wherever the GPU stands; Draw runs only after an Update has selected
\* the current slot.
C26_ResetOnlyWhenIdle == C26_AllocatorIdle /\ C26_SlotSelected

\* Draw reuses a slot whose frame the GPU has just completed while the two
\* later frames are still queued
C26_Witness ==
    /\ pc = "Draw"
    /\ CurrFence # 0
    /\ mFence = CurrFence
    /\ Cardinality(ExecSlots) = N - 1

\* ---- C27
\* the flush of the shutdown path is waiting for the fence point it queued
FlushPcs == {"UnwindFlush", "ReturnFlush"}

C27_LeadOfCounter ==
    pc \notin FlushPcs =>
        /\ mFence <= mCurrentFence
        /\ mCurrentFence - mFence <= N

\* from the return of the fence wait to the submission of the next Draw
C27_LeadWhileWriting ==
    pc \in {"UpdateWrite", "Draw", "Execute"} => mCurrentFence - mFence <= N - 1

ObjectWrites == {w \in cbWrites : w.cb = "object"}
MaterialWrites == {w \in cbWrites : w.cb = "material"}

\* the counters only: no other field of a RenderItem changes after startup
C28_ItemsNotModified ==
    /\ Len(mAllRitems') = Len(mAllRitems)
    /\ \A p \in 1..Len(mAllRitems) :
          mAllRitems'[p] = [mAllRitems[p] EXCEPT !.NumFramesDirty = mAllRitems'[p].NumFramesDirty]

C28_ObjectsSettle ==
    /\ numUpdates >= N => \A p \in 1..Len(mAllRitems) : mAllRitems[p].NumFramesDirty = 0
    /\ numUpdates > N => ObjectWrites = {}
    /\ (numUpdates >= 1 /\ numUpdates <= N) =>
          ObjectWrites = {[cb |-> "object", slot |-> slotHistory[numUpdates],
                           index |-> mAllRitems[p].ObjCBIndex] : p \in 1..Len(mAllRitems)}

C28_WaterRewritten ==
    numUpdates >= 1 =>
        /\ [cb |-> "material", slot |-> slotHistory[numUpdates],
             index |-> mMaterials["water"].MatCBIndex] \in MaterialWrites
        /\ mMaterials["water"].NumFramesDirty = N - 1
        /\ numUpdates > N => Cardinality(MaterialWrites) = 1

\* the object constants of a slot keep their values once N Updates have run
C28_ObjectCBKept ==
    numUpdates >= N =>
        \A k \in Slots : mFrameResources'[k].ObjectCB = mFrameResources[k].ObjectCB

\* C28: no field of a RenderItem other than NumFramesDirty changes after
\* startup; after the first N Updates every RenderItem's NumFramesDirty is 0
\* and UpdateObjectCBs copies no object-constant entry into any slot; the
\* water material is marked dirty in every Update, so every Update copies its
\* material-constant entry into the current slot and leaves its counter at
\* N - 1.
C28_ObjectsOnceWaterAlways ==
    /\ [](C28_ObjectsSettle /\ C28_WaterRewritten)
    /\ [][C28_ItemsNotModified /\ C28_ObjectCBKept]_vars

\* the fifth Update copied the water entry only
C28_Witness ==
    /\ pc = "Draw"
    /\ numUpdates = N + 2
    /\ cbWrites = {[cb |-> "material", slot |-> mCurrFrameResource,
                    index |-> mMaterials["water"].MatCBIndex]}

\* ---- C29
\* the time by which the timer is ahead of t_base, in whole periods
Backlog == (gt.TotalTime - t_base) \div DisturbPeriod

C29_TimeBase ==
    /\ t_base % DisturbPeriod = 0
    /\ t_base <= gt.TotalTime
    /\ Len(disturbTimes) <= gt.TotalTime \div DisturbPeriod
    /\ Backlog >= 0

\* one Update: a disturbance exactly when a period is outstanding, and the
\* time base moves by one period with it
C29_UpdateStep ==
    (pc = "UpdateWrite" /\ pc' = "Draw") =>
        /\ Len(disturbTimes') = Len(disturbTimes) + (IF Backlog >= 1 THEN 1 ELSE 0)
        /\ t_base' = t_base + DisturbPeriod * (Len(disturbTimes') - Len(disturbTimes))

C29_OtherStep ==
    ~(pc = "UpdateWrite" /\ pc' = "Draw") =>
        disturbTimes' = disturbTimes /\ t_base' = t_base

\* C29: an Update injects at most one disturbance and moves t_base by
\* exactly 0.25 s (one period of 5 ticks) with it; t_base is a multiple of
\* 0.25 s and never exceeds the timer's total time T, and at most
\* floor(T / 0.25) disturbances have been injected up to T; while periods
\* are outstanding after a long frame every Update injects one.
C29_OneDisturbancePerPeriod ==
    []C29_TimeBase /\ [][C29_UpdateStep /\ C29_OtherStep]_vars

\* a frame of 10 s has passed and the Updates since have injected one
\* disturbance each without catching up
C29_Witness ==
    /\ pc = "Draw"
    /\ maxDt = LongDt
    /\ Len(disturbTimes) >= 3
    /\ disturbTimes[3] - disturbTimes[1] < DisturbPeriod
    /\ Backlog >= 2

\* ---- C30
\* capacity of the material-constant buffer of slot s
MaterialCapacity(s) == Cardinality(DOMAIN mFrameResources[s].MaterialCB)

C30_MaterialIndices ==
    /\ \A n \in MaterialNames, m \in MaterialNames :
            n # m => mMaterials[n].MatCBIndex # mMaterials[m].MatCBIndex
    /\ \A n \in MaterialNames, s \in Slots :
            /\ mMaterials[n].MatCBIndex \in DOMAIN mFrameResources[s].MaterialCB
            /\ mMaterials[n].MatCBIndex < MaterialCapacity(s)
            /\ MaterialCapacity(s) = Cardinality(DOMAIN mMaterials)

C30_TextureIndices ==
    /\ Len(mSrvDescriptorHeap) <= NumDescriptors
    /\ \A n \in MaterialNames :
            /\ mMaterials[n].DiffuseSrvHeapIndex >= 0
            /\ mMaterials[n].DiffuseSrvHeapIndex < 7
            /\ mMaterials[n].DiffuseSrvHeapIndex + 1 \in DOMAIN mSrvDescriptorHeap

\* the draw calls recorded in the command list
C30_DrawsInsideAllocation ==
    \A i \in 1..Len(mCommandList) :
        /\ mCommandList[i].MatCBIndex \in DOMAIN mFrameResources[mCommandList[i].slot].MaterialCB
        /\ mCommandList[i].tex + 1 \in DOMAIN mSrvDescriptorHeap

\* C30: the MatCBIndex values of the materials are pairwise distinct and
\* below the capacity of every slot's material buffer, which is the
\* material count; every DiffuseSrvHeapIndex is below 7 and names a view
\* that BuildDescriptorHeaps created in the 8-entry heap; every recorded draw
\* call binds a material-constant entry and a texture view inside these.
C30_MaterialBindingsAllocated ==
    C30_MaterialIndices /\ C30_TextureIndices /\ C30_DrawsInsideAllocation

\* a recorded frame with a draw call that binds the last material entry and
\* the last created view
C30_Witness ==
    /\ pc = "Execute"
    /\ \E i \in 1..Len(mCommandList) :
          /\ mCommandList[i].MatCBIndex = Cardinality(MaterialNames) - 1
          /\ mCommandList[i].tex = Len(mSrvDescriptorHeap) - 1

====
